---- MODULE Spec2Model ----
(***************************************************************************)
(* Model of src/0340_LHC_prediction.py: the straight-line script that      *)
(* evaluates a Lorentzian dip over a linspace grid, flags the anomaly      *)
(* zone, builds the DataFrame, writes two CSV exports, draws two plots and *)
(* prints the summary minima.                                              *)
(*                                                                         *)
(* Numbers.  The script works on float64 arrays.  A float is modelled by   *)
(* an exact rational [n, d] in lowest terms with d >= 0, extended by the   *)
(* IEEE specials: 1/0 is +inf, -1/0 is -inf and 0/0 is NaN, so that a      *)
(* division by a zero width yields what numpy yields (inf or nan and a     *)
(* warning, never an exception).  Rounding error is not modelled.          *)
(*                                                                         *)
(* Parameters.  The grid literals of line 29, the dip centre and width of  *)
(* lines 20 and 34 and the zone literals of line 42 are the parameters of  *)
(* the run (variable params); they are drawn from small integer sets.      *)
(* XSEC_BASELINE_PB, dip_depth, the 0.033 factor, PHI_MID, the 0.0025      *)
(* amplitude, the 255 multiplier and the regime thresholds are the         *)
(* script's own values.  The curve and the sine argument depend on the     *)
(* coordinates only through (x - centre) / width and x / centre, so the    *)
(* unit of the coordinate axis does not matter.                            *)
(***************************************************************************)
EXTENDS Integers, Sequences, FiniteSets

VARIABLES params, pc, energies_GeV, lorentzian, cross_section_pb,
          anomaly_zone, df, csv_full, csv_zone, written, ax1_line,
          regimes, min_xsec, anomaly_min

vars == <<params, pc, energies_GeV, lorentzian, cross_section_pb,
          anomaly_zone, df, csv_full, csv_zone, written, ax1_line,
          regimes, min_xsec, anomaly_min>>

(***************************************************************************)
(* Bounds of the model.                                                    *)
(***************************************************************************)
MaxN == 4
MaxCoord == 8

(***************************************************************************)
(* float64 arithmetic as extended rationals.                               *)
(***************************************************************************)
Abs(a) == IF a < 0 THEN -a ELSE a

Sgn(a) == IF a < 0 THEN -1 ELSE IF a > 0 THEN 1 ELSE 0

RECURSIVE GCD(_, _)
GCD(a, b) == IF b = 0 THEN a ELSE GCD(b, a % b)

Norm(n, d) ==
    IF d = 0 THEN [n |-> Sgn(n), d |-> 0]
    ELSE LET g == GCD(Abs(n), Abs(d))
         IN  [n |-> Sgn(d) * (n \div g), d |-> Abs(d) \div g]

R(k) == [n |-> k, d |-> 1]

NaN == [n |-> 0, d |-> 0]

IsNaN(a) == a.d = 0 /\ a.n = 0

RNeg(a) == [n |-> -a.n, d |-> a.d]

\* a + b; inf + inf of one sign stays inf, inf - inf is nan
RAdd(a, b) ==
    IF a.d = 0 /\ b.d = 0
    THEN (IF a.n = b.n THEN a ELSE NaN)
    ELSE LET g == GCD(a.d, b.d)
         IN  Norm(a.n * (b.d \div g) + b.n * (a.d \div g), (a.d \div g) * b.d)

RSub(a, b) == RAdd(a, RNeg(b))

\* a * b, cancelling across before multiplying
RMul(a, b) ==
    LET g1 == GCD(Abs(a.n), b.d)
        g2 == GCD(Abs(b.n), a.d)
        h1 == IF g1 = 0 THEN 1 ELSE g1
        h2 == IF g2 = 0 THEN 1 ELSE g2
    IN  Norm((a.n \div h1) * (b.n \div h2), (a.d \div h2) * (b.d \div h1))

\* a / b; x / 0 is +-inf, 0 / 0 is nan, x / inf is 0
RDiv(a, b) ==
    IF b.n < 0 THEN RMul(a, [n |-> -b.d, d |-> -b.n])
    ELSE RMul(a, [n |-> b.d, d |-> b.n])

RSq(a) == RMul(a, a)

RAbs(a) == [n |-> Abs(a.n), d |-> a.d]

\* comparisons are false as soon as one side is nan
RLt(a, b) == ~IsNaN(a) /\ ~IsNaN(b) /\ a # b /\ a.n * b.d < b.n * a.d

RLe(a, b) == ~IsNaN(a) /\ ~IsNaN(b) /\ (a = b \/ a.n * b.d < b.n * a.d)

RGe(a, b) == RLe(b, a)

\* np.floor(a).astype(int) of a finite a
Floor(a) == a.n \div a.d

(***************************************************************************)
(* The script's constants.                                                 *)
(***************************************************************************)
PHI_MID == Norm(1325, 10000)

FORBIDDENBYTES == {33, 34}

XSEC_BASELINE_PB == 100

dip_depth == 80

\* the literal 0.033 of line 39
P_G == Norm(33, 1000)

\* the literal 0.0025 of lines 50 and 51
PhiAmplitude == Norm(25, 10000)

\* the literal 255 of line 51
ByteScale == 255

\* the files of lines 56 and 57
FullCsv == "0340_LHC_884GeV_xsec.csv"

ZoneCsv == "0340_LHC_anomaly_zone.csv"

(***************************************************************************)
(* The parameters of a run: np.linspace(low, high, N), the dip centre      *)
(* (LHC_ANOMALY_GEV, also the divisor of the sine argument), the dip width *)
(* and the zone bounds.                                                    *)
(***************************************************************************)
Lows == {0, 1, 6}

Highs == {6, MaxCoord}

Ns == 1..MaxN

Centers == {3, 4}

Widths == {0, 1, 2}

ZLows == {2, 3, 4}

ZHighs == {3, 4, 6}

AllParams ==
    [low : Lows, high : Highs, N : Ns, center : Centers, width : Widths,
     zlow : ZLows, zhigh : ZHighs]

\* the constraints the configured literals satisfy (200 < 14000, 1000 > 1,
\* 34.0 > 0, 200 <= 800 <= 1000 <= 14000, 200 <= 884 <= 14000)
Valid(p) ==
    /\ p.low < p.high
    /\ p.low <= p.center /\ p.center <= p.high
    /\ p.N > 1
    /\ p.width > 0
    /\ p.low <= p.zlow /\ p.zlow <= p.zhigh /\ p.zhigh <= p.high

(***************************************************************************)
(* numpy and pandas operations the script uses.                            *)
(***************************************************************************)
\* np.linspace had it been called with endpoint=False
LinspaceOpen(start, stop, num) ==
    [i \in 1..num |-> RAdd(R(start), RMul(R(i - 1), RDiv(R(stop - start), R(num))))]

\* np.linspace(start, stop, num) for num >= 1: start + i * step with
\* step = (stop - start) / (num - 1), the last point set to stop
Linspace(start, stop, num) ==
    [i \in 1..num |->
        IF num > 1 /\ i = num THEN R(stop)
        ELSE IF num > 1
             THEN RAdd(R(start), RMul(R(i - 1), RDiv(R(stop - start), R(num - 1))))
             ELSE R(start)]

\* np.sin(t) of a finite t >= 0 or t < 0: Bhaskara's rational approximation
\* 16 y (pi - y) / (5 pi^2 - 4 y (pi - y)) on a half period, with pi = 22/7;
\* its values lie in [-1, 1]
Sin(t) ==
    LET q == t.d
        u == (7 * Abs(t.n)) % (44 * q)
        neg == (u >= 22 * q) # (t.n < 0)
        v == IF u >= 22 * q THEN u - 22 * q ELSE u
        A == v * (22 * q - v)
        s == Norm(4 * A, 605 * q * q - A)
    IN  IF neg THEN RNeg(s) ELSE s

\* array.min(): nan as soon as one element is nan (the array is not empty)
ArrMin(a) ==
    IF \E i \in 1..Len(a) : IsNaN(a[i]) THEN NaN
    ELSE a[CHOOSE i \in 1..Len(a) : \A j \in 1..Len(a) : RLe(a[i], a[j])]

\* a[~mask]: the elements whose mask entry is false
RECURSIVE SelectNot(_, _)
SelectNot(a, mask) ==
    IF Len(a) = 0 THEN <<>>
    ELSE IF ~Head(mask) THEN <<Head(a)>> \o SelectNot(Tail(a), Tail(mask))
         ELSE SelectNot(Tail(a), Tail(mask))

\* a[mask], df[mask]: the elements whose mask entry is true, in order
RECURSIVE Select(_, _)
Select(a, mask) ==
    IF Len(a) = 0 THEN <<>>
    ELSE IF Head(mask) THEN <<Head(a)>> \o Select(Tail(a), Tail(mask))
         ELSE Select(Tail(a), Tail(mask))

(***************************************************************************)
(* The element-wise expressions of the script.                             *)
(***************************************************************************)
\* line 38: 1 / (1 + ((x - dip_center_GeV) / dip_width_GeV)**2)
LorentzianAt(x, center, width) ==
    RDiv(R(1), RAdd(R(1), RSq(RDiv(RSub(x, R(center)), R(width)))))

\* line 39 with the sign of the dip flipped
XsecPeak(l) ==
    RMul(R(XSEC_BASELINE_PB), RAdd(R(1), RMul(RMul(R(dip_depth), l), P_G)))

\* line 39: XSEC_BASELINE_PB * (1.0 - dip_depth * lorentzian * 0.033)
Xsec(l) ==
    RMul(R(XSEC_BASELINE_PB), RSub(R(1), RMul(RMul(R(dip_depth), l), P_G)))

\* line 42 with strict comparisons
InZoneStrict(x, zlow, zhigh) == RLt(R(zlow), x) /\ RLt(x, R(zhigh))

\* line 42: (x >= zlow) & (x <= zhigh)
InZone(x, zlow, zhigh) == RGe(x, R(zlow)) /\ RLe(x, R(zhigh))

\* line 50: PHI_MID + 0.0025 * np.sin(x / LHC_ANOMALY_GEV)
MetabitPhi(x, center) ==
    RAdd(PHI_MID, RMul(PhiAmplitude, Sin(RDiv(x, R(center)))))

\* line 51: np.floor((PHI_MID + 0.0025 * np.sin(...)) * 255).astype(int)
PredictedByte(x, center) == Floor(RMul(MetabitPhi(x, center), R(ByteScale)))

\* line 83 with the R threshold one lower
RegimeOffByOne(b) == IF b <= 32 THEN "L" ELSE IF b >= 34 THEN "R" ELSE "G"

\* line 83: np.where(b <= 32, 'L', np.where(b >= 35, 'R', 'G'))
Regime(b) == IF b <= 32 THEN "L" ELSE IF b >= 35 THEN "R" ELSE "G"

\* lines 45-52: one row of the DataFrame
Row(i) ==
    [sqrt_s_GeV |-> energies_GeV[i],
     sqrt_s_TeV |-> RDiv(energies_GeV[i], R(1000)),
     xsec_pb |-> cross_section_pb[i],
     anomaly_zone |-> anomaly_zone[i],
     metabit_phi |-> MetabitPhi(energies_GeV[i], params.center),
     predicted_byte |-> PredictedByte(energies_GeV[i], params.center)]

(***************************************************************************)
(* The run, statement by statement.                                        *)
(***************************************************************************)
InitVars ==
    /\ pc = "linspace"
    /\ energies_GeV = <<>>
    /\ lorentzian = <<>>
    /\ cross_section_pb = <<>>
    /\ anomaly_zone = <<>>
    /\ df = <<>>
    /\ csv_full = <<>>
    /\ csv_zone = <<>>
    /\ written = {}
    /\ ax1_line = <<>>
    /\ regimes = <<>>
    /\ min_xsec = <<>>
    /\ anomaly_min = <<>>

Init == params \in {p \in AllParams : Valid(p)} /\ InitVars

\* the same script with literals that the constraints do not restrict
InitAny == params \in AllParams /\ InitVars

\* lines 29-30
ComputeGrid ==
    /\ pc = "linspace"
    /\ energies_GeV' = Linspace(params.low, params.high, params.N)
    /\ pc' = "curve"
    /\ UNCHANGED <<params, lorentzian, cross_section_pb, anomaly_zone, df,
                   csv_full, csv_zone, written, ax1_line, regimes, min_xsec,
                   anomaly_min>>

\* lines 33-39
ComputeCurve ==
    /\ pc = "curve"
    /\ lorentzian' = [i \in 1..Len(energies_GeV) |->
                        LorentzianAt(energies_GeV[i], params.center, params.width)]
    /\ cross_section_pb' = [i \in 1..Len(energies_GeV) |-> Xsec(lorentzian'[i])]
    /\ pc' = "zone"
    /\ UNCHANGED <<params, energies_GeV, anomaly_zone, df, csv_full, csv_zone,
                   written, ax1_line, regimes, min_xsec, anomaly_min>>

\* line 42
ComputeZone ==
    /\ pc = "zone"
    /\ anomaly_zone' = [i \in 1..Len(energies_GeV) |->
                          InZone(energies_GeV[i], params.zlow, params.zhigh)]
    /\ pc' = "frame"
    /\ UNCHANGED <<params, energies_GeV, lorentzian, cross_section_pb, df,
                   csv_full, csv_zone, written, ax1_line, regimes, min_xsec,
                   anomaly_min>>

\* lines 45-52
BuildDf ==
    /\ pc = "frame"
    /\ df' = [i \in 1..Len(energies_GeV) |-> Row(i)]
    /\ pc' = "to_csv"
    /\ UNCHANGED <<params, energies_GeV, lorentzian, cross_section_pb,
                   anomaly_zone, csv_full, csv_zone, written, ax1_line, regimes,
                   min_xsec, anomaly_min>>

\* lines 55-56
WriteFullCsv ==
    /\ pc = "to_csv"
    /\ csv_full' = df
    /\ written' = written \cup {FullCsv}
    /\ pc' = "zone_to_csv"
    /\ UNCHANGED <<params, energies_GeV, lorentzian, cross_section_pb,
                   anomaly_zone, df, csv_zone, ax1_line, regimes, min_xsec,
                   anomaly_min>>

\* line 57 had it been df = df[anomaly_zone]; df.to_csv(...)
WriteZoneCsvInPlace ==
    /\ pc = "zone_to_csv"
    /\ df' = Select(df, anomaly_zone)
    /\ csv_zone' = df'
    /\ written' = written \cup {ZoneCsv}
    /\ pc' = "plot"
    /\ UNCHANGED <<params, energies_GeV, lorentzian, cross_section_pb,
                   anomaly_zone, csv_full, ax1_line, regimes, min_xsec,
                   anomaly_min>>

\* line 57
WriteZoneCsv ==
    /\ pc = "zone_to_csv"
    /\ csv_zone' = Select(df, anomaly_zone)
    /\ written' = written \cup {ZoneCsv}
    /\ pc' = "plot"
    /\ UNCHANGED <<params, energies_GeV, lorentzian, cross_section_pb,
                   anomaly_zone, df, csv_full, ax1_line, regimes, min_xsec,
                   anomaly_min>>

\* lines 60-78: the curve drawn on ax1
MainPlot ==
    /\ pc = "plot"
    /\ ax1_line' = [i \in 1..Len(energies_GeV) |->
                      <<RDiv(energies_GeV[i], R(1000)), cross_section_pb[i]>>]
    /\ pc' = "regimes"
    /\ UNCHANGED <<params, energies_GeV, lorentzian, cross_section_pb,
                   anomaly_zone, df, csv_full, csv_zone, written, regimes,
                   min_xsec, anomaly_min>>

\* lines 81-94: the byte regime of every record
RegimePlot ==
    /\ pc = "regimes"
    /\ regimes' = [i \in 1..Len(df) |-> Regime(df[i].predicted_byte)]
    /\ pc' = "savefig"
    /\ UNCHANGED <<params, energies_GeV, lorentzian, cross_section_pb,
                   anomaly_zone, df, csv_full, csv_zone, written, ax1_line,
                   min_xsec, anomaly_min>>

\* lines 96-99
SaveFigs ==
    /\ pc = "savefig"
    /\ written' = written \cup {"0340_LHC_884GeV_dip.png", "0340_LHC_884GeV_dip.pdf"}
    /\ pc' = "min"
    /\ UNCHANGED <<params, energies_GeV, lorentzian, cross_section_pb,
                   anomaly_zone, df, csv_full, csv_zone, ax1_line, regimes,
                   min_xsec, anomaly_min>>

\* line 102
MinXsec ==
    /\ pc = "min"
    /\ min_xsec' = <<ArrMin(cross_section_pb)>>
    /\ pc' = "zone_min"
    /\ UNCHANGED <<params, energies_GeV, lorentzian, cross_section_pb,
                   anomaly_zone, df, csv_full, csv_zone, written, ax1_line,
                   regimes, anomaly_min>>

\* lines 103-118: min() of an empty selection raises ValueError
AnomalyMin ==
    /\ pc = "zone_min"
    /\ LET sel == Select(cross_section_pb, anomaly_zone)
       IN  IF Len(sel) = 0
           THEN pc' = "ValueError" /\ UNCHANGED anomaly_min
           ELSE pc' = "done" /\ anomaly_min' = <<ArrMin(sel)>>
    /\ UNCHANGED <<params, energies_GeV, lorentzian, cross_section_pb,
                   anomaly_zone, df, csv_full, csv_zone, written, ax1_line,
                   regimes, min_xsec>>

Next ==
    \/ ComputeGrid
    \/ ComputeCurve
    \/ ComputeZone
    \/ BuildDf
    \/ WriteFullCsv
    \/ WriteZoneCsv
    \/ MainPlot
    \/ RegimePlot
    \/ SaveFigs
    \/ MinXsec
    \/ AnomalyMin

Spec == Init /\ [][Next]_vars

SpecAny == InitAny /\ [][Next]_vars

(***************************************************************************)
(* Properties.  Coordinates are compared in integer arithmetic on the      *)
(* numerator and denominator of a grid point, independently of the         *)
(* comparison operators the run itself uses.                               *)
(***************************************************************************)
CurveComputed == pc \notin {"linspace", "curve"}

FrameBuilt == pc \notin {"linspace", "curve", "zone", "frame"}

MinComputed == pc \in {"zone_min", "done", "ValueError"}

\* |x - center| of grid point i, times the denominator of x
Dist(i) == Abs(energies_GeV[i].n - params.center * energies_GeV[i].d)

\* grid point i is strictly farther from the centre than grid point j
Farther(i, j) == Dist(i) * energies_GeV[j].d > Dist(j) * energies_GeV[i].d

\* zlow <= x <= zhigh for the coordinate x of a row
Between(x, lo, hi) == lo * x.d <= x.n /\ x.n <= hi * x.d

\* C1: the curve value of a record whose coordinate is the centre equals
\* baseline - depth (20 for baseline 100 and depth 80).
C1_ValueAtCenter ==
    FrameBuilt =>
        \A i \in 1..Len(df) :
            df[i].sqrt_s_GeV = R(params.center)
                => df[i].xsec_pb = R(XSEC_BASELINE_PB - dip_depth)

\* the four constraints C2 names
C2_Constraints(p) ==
    p.width > 0 /\ p.N > 1 /\ p.low < p.high /\ p.zlow <= p.zhigh

C3_ZoneFlag ==
    FrameBuilt =>
        \A i \in 1..Len(df) :
            /\ df[i].anomaly_zone
                 = Between(df[i].sqrt_s_GeV, params.zlow, params.zhigh)
            /\ (/\ df[i].sqrt_s_GeV = R(params.center)
                /\ params.zlow <= params.center
                /\ params.center <= params.zhigh) => df[i].anomaly_zone

C3_Witness ==
    /\ pc = "done"
    /\ \E i, j, k \in 1..Len(df) :
          /\ df[i].sqrt_s_GeV = R(params.center) /\ df[i].anomaly_zone
          /\ df[j].sqrt_s_GeV = R(params.zlow) /\ df[j].anomaly_zone
          /\ ~df[k].anomaly_zone

\* C4: the minimum of the curve over the grid is attained at a grid point
\* nearest to the centre, which lies within one grid spacing of the centre
\* (the centre being inside the grid's range), and no grid point farther
\* from the centre has a lower value than a nearer one.
C4_MinAtNearest ==
    MinComputed =>
        /\ \E i \in 1..Len(energies_GeV) :
              /\ \A j \in 1..Len(energies_GeV) : ~Farther(i, j)
              /\ min_xsec = <<cross_section_pb[i]>>
              /\ Dist(i) * (params.N - 1)
                   <= (params.high - params.low) * energies_GeV[i].d
        /\ \A j, k \in 1..Len(energies_GeV) :
              Farther(j, k) => ~RLt(cross_section_pb[j], cross_section_pb[k])

C4_Witness ==
    /\ pc = "done"
    /\ \A i \in 1..Len(energies_GeV) : energies_GeV[i] # R(params.center)
    /\ \E i, j \in 1..Len(energies_GeV) :
          /\ Farther(j, i)
          /\ min_xsec = <<cross_section_pb[i]>>
          /\ RLt(cross_section_pb[i], cross_section_pb[j])

\* C5: for every grid point x other than the centre the value is at most
\* baseline and falls short of baseline by no more than
\* depth * (width / |x - center|)^2.
C5_RecoveryBound ==
    CurveComputed =>
        \A i \in 1..Len(energies_GeV) :
            energies_GeV[i] # R(params.center) =>
                /\ RLe(cross_section_pb[i], R(XSEC_BASELINE_PB))
                /\ RLe(RSub(R(XSEC_BASELINE_PB), cross_section_pb[i]),
                       RMul(R(dip_depth),
                            RSq(RDiv(R(params.width),
                                     RAbs(RSub(energies_GeV[i], R(params.center)))))))

\* C6: the grid has exactly N points, starts at low, ends at high and is
\* strictly increasing; the Dataset and the full export hold one row per
\* grid point, in the grid's order.
C6_GridAndRows ==
    /\ pc # "linspace" =>
          /\ Len(energies_GeV) = params.N
          /\ energies_GeV[1] = R(params.low)
          /\ energies_GeV[params.N] = R(params.high)
          /\ \A i \in 1..(params.N - 1) :
                energies_GeV[i].n * energies_GeV[i + 1].d
                    < energies_GeV[i + 1].n * energies_GeV[i].d
    /\ FrameBuilt =>
          /\ Len(df) = params.N
          /\ \A i \in 1..params.N : df[i].sqrt_s_GeV = energies_GeV[i]
    /\ FullCsv \in written =>
          /\ Len(csv_full) = params.N
          /\ \A i \in 1..params.N : csv_full[i].sqrt_s_GeV = energies_GeV[i]

C6_Witness ==
    /\ pc = "done"
    /\ params.N >= 3
    /\ FullCsv \in written
    /\ \E i \in 1..Len(csv_full) : csv_full[i].sqrt_s_GeV.d > 1

\* C8: the Dataset is assigned once, when it is built, and no later step
\* (the two exports, the plots, the summary minima) changes any record.
C8_DatasetNeverMutated ==
    [][df' # df => (pc = "frame" /\ df = <<>>)]_vars

C8_Witness ==
    /\ pc = "done"
    /\ Len(df) = params.N
    /\ Len(csv_zone) < Len(df)
    /\ ZoneCsv \in written
    /\ regimes # <<>>
    /\ anomaly_min # <<>>

\* the number of flagged rows among the first i rows of the full export
Flagged(i) == Cardinality({j \in 1..i : csv_full[j].anomaly_zone})

\* C9: the zone export holds exactly the flagged rows of the full export,
\* unchanged and in the same order, and is written only after the full
\* export; it is not empty when the zone lies within the grid's range and
\* is at least one grid spacing wide (as 800..1000 is for 1000 points over
\* 200..14000).
C9_ZoneExport ==
    ZoneCsv \in written =>
        /\ FullCsv \in written
        /\ Len(csv_zone) = Flagged(Len(csv_full))
        /\ \A k \in 1..Len(csv_zone) :
              \E i \in 1..Len(csv_full) :
                  /\ csv_full[i].anomaly_zone
                  /\ Flagged(i) = k
                  /\ csv_zone[k] = csv_full[i]
        /\ (/\ params.low <= params.zlow
            /\ params.zhigh <= params.high
            /\ (params.zhigh - params.zlow) * (params.N - 1)
                  >= params.high - params.low) => Len(csv_zone) > 0

C9_Witness ==
    /\ pc = "done"
    /\ Len(csv_zone) >= 2
    /\ Len(csv_zone) < Len(csv_full)
    /\ ~csv_full[1].anomaly_zone

====
